---- MODULE Spec2Model ----
(***************************************************************************)
(* A model of py-Galaxia's IsochroneFile (photometry/IsochroneFile.py) and *)
(* of the entry point make_survey_from_particles (__init__.py).            *)
(*                                                                         *)
(* Text is a sequence of one-character strings, so that stripping,         *)
(* splitting and regular-expression matching are computed character by     *)
(* character as Python computes them.  A file on disk is a sequence of     *)
(* lines as readline() returns them: every line ends with "\n" except      *)
(* possibly the last one.                                                  *)
(***************************************************************************)
EXTENDS Integers, Sequences, FiniteSets, TLC

VARIABLES
    disk,           \* the file at the path: Absent, or its lines
    argPath,        \* the path the caller passes to IsochroneFile(...)
    argTable,       \* the table the caller passes in the two-argument form
    threads,        \* the threads that share the object
    obj,            \* "new", "live" (constructed) or "failed" (__init__ raised)
    nargs,          \* number of positional arguments __init__ received
    _isochrone,     \* self._isochrone
    _path,          \* self._path
    _column_names,  \* self._column_names
    _data,          \* self._data
    pc,             \* per thread: position inside a property access
    ctx,            \* per thread: the attribute being (or last) accessed
    tmp,            \* per thread: the local value in flight (header names, rows)
    result,         \* per thread: what the last access returned or raised
    nOpen,          \* how often each file section was opened and parsed
    nParsed,        \* how often each file section was parsed without raising
    nAssign,        \* how often each cached field was assigned by a load
    nAccess,        \* number of lazy-property accesses started
    svPc,           \* make_survey_from_particles: position in the call
    svArgs,         \* number of positional arguments of the call
    svPname,        \* keyword argument pname
    svKname,        \* keyword argument kname
    svInput,        \* the local variable `input`
    svBuilt,        \* what the current call has started so far
    svErr,          \* the exception the current call raised
    svCalls         \* number of calls made

objVars == <<disk, argPath, argTable, threads, obj, nargs, _isochrone, _path,
             _column_names, _data, pc, ctx, tmp, result, nOpen, nParsed,
             nAssign, nAccess>>
svVars == <<svPc, svArgs, svPname, svKname, svInput, svBuilt, svErr, svCalls>>
vars == <<objVars, svVars>>

----------------------------------------------------------------------------
(* Bounds of the model. *)

\* lazy-property accesses (column_names, data) started on one object
MaxAccess == 3
\* characters of the line drawn freely in the header study
MaxLineLen == 4
\* characters between prefix and suffix of the file names drawn
MaxValLen == 3
\* rows of the table passed to the two-argument constructor
MaxRows == 3
\* calls of make_survey_from_particles
MaxCalls == 2

----------------------------------------------------------------------------
(* Python values. *)

None == [tag |-> "None"]
Some(v) == [tag |-> "Some", val |-> v]
IsNone(x) == x.tag = "None"
\* an attribute __init__ has not set yet
NoAttr == [tag |-> "NoAttr"]
\* a file that does not exist
Absent == [tag |-> "Absent"]
File(lines) == [tag |-> "File", lines |-> lines]

NoResult == [kind |-> "none"]
Returned(v) == [kind |-> "return", val |-> v]
Raised(e) == [kind |-> "raise", exc |-> e]

\* ValueError and the exceptions deriving from it
\* (astropy's InconsistentTableError is a ValueError)
ValueErrorClass == {"ValueError", "InconsistentTableError"}

----------------------------------------------------------------------------
(* str methods, character by character. *)

RECURSIVE LStrip(_, _)
LStrip(s, cs) ==
    IF s # <<>> /\ Head(s) \in cs THEN LStrip(Tail(s), cs) ELSE s

RECURSIVE RStrip(_, _)
RStrip(s, cs) ==
    IF s # <<>> /\ s[Len(s)] \in cs
    THEN RStrip(SubSeq(s, 1, Len(s) - 1), cs)
    ELSE s

\* str.strip(chars)
Strip(s, cs) == RStrip(LStrip(s, cs), cs)

\* str.replace('\t', ' ')
ReplaceTabs(s) == [i \in 1..Len(s) |-> IF s[i] = "\t" THEN " " ELSE s[i]]

\* str.count('  ') > 0
HasDoubleSpace(s) == \E i \in 1..(Len(s) - 1) : s[i] = " " /\ s[i + 1] = " "

\* str.replace('  ', ' '): non-overlapping occurrences, left to right
RECURSIVE ReplaceDoubleSpace(_)
ReplaceDoubleSpace(s) ==
    IF Len(s) < 2 THEN s
    ELSE IF s[1] = " " /\ s[2] = " "
         THEN <<" ">> \o ReplaceDoubleSpace(SubSeq(s, 3, Len(s)))
         ELSE <<s[1]>> \o ReplaceDoubleSpace(Tail(s))

\* while header.count('  '): header = header.replace('  ', ' ')
RECURSIVE CollapseSpaces(_)
CollapseSpaces(s) ==
    IF HasDoubleSpace(s) THEN CollapseSpaces(ReplaceDoubleSpace(s)) ELSE s

\* str.split(' '): every single space separates, empty pieces are kept
RECURSIVE SplitFrom(_, _, _)
SplitFrom(s, i, cur) ==
    IF i > Len(s) THEN <<cur>>
    ELSE IF s[i] = " " THEN <<cur>> \o SplitFrom(s, i + 1, <<>>)
    ELSE SplitFrom(s, i + 1, Append(cur, s[i]))

SplitSpace(s) == SplitFrom(s, 1, <<>>)

\* str.split(): runs of whitespace separate, no empty pieces
Whitespace == {" ", "\t", "\n"}

RECURSIVE FieldsFrom(_, _, _)
FieldsFrom(s, i, cur) ==
    IF i > Len(s) THEN (IF cur = <<>> THEN <<>> ELSE <<cur>>)
    ELSE IF s[i] \in Whitespace
         THEN (IF cur = <<>> THEN <<>> ELSE <<cur>>) \o FieldsFrom(s, i + 1, <<>>)
    ELSE FieldsFrom(s, i + 1, Append(cur, s[i]))

Fields(s) == FieldsFrom(s, 1, <<>>)

----------------------------------------------------------------------------
(* IsochroneFile._load_column_names, lines 54-64. *)

Unbound == [bound |-> FALSE]
Bound(v) == [bound |-> TRUE, val |-> v]

\* (_temp[0] == '#') if _temp else False
IsCommented(line) == line # <<>> /\ line[1] = "#"

\* the readline loop: `header` is the last line of the leading block of
\* lines that start with '#'; it stays unbound when the block is empty
RECURSIVE ReadHeader(_, _, _)
ReadHeader(lines, i, header) ==
    IF i > Len(lines) THEN header
    ELSE IF IsCommented(lines[i]) THEN ReadHeader(lines, i + 1, Bound(lines[i]))
    ELSE header

\* header.strip('#').strip(' ').strip('\n').replace('\t',' ')
StripHeader(h) == ReplaceTabs(Strip(Strip(Strip(h, {"#"}), {" "}), {"\n"}))

\* lines 61-64: the value assigned to self._column_names
HeaderNames(h) == SplitSpace(CollapseSpaces(StripHeader(h)))

----------------------------------------------------------------------------
(* ascii.read(self._path, names=...), line 67: the body is the lines that  *)
(* are neither comments nor blank; each is split into fields; a row whose  *)
(* number of fields differs from the number of names is an error.          *)

RECURSIVE BodyRows(_, _)
BodyRows(lines, i) ==
    IF i > Len(lines) THEN <<>>
    ELSE IF IsCommented(lines[i]) \/ Fields(lines[i]) = <<>>
         THEN BodyRows(lines, i + 1)
    ELSE <<Fields(lines[i])>> \o BodyRows(lines, i + 1)

ascii_read(file, names) ==
    IF file.tag = "Absent" THEN Raised("FileNotFoundError")
    ELSE LET rows == BodyRows(file.lines, 1) IN
         IF \E r \in 1..Len(rows) : Len(rows[r]) # Len(names)
         THEN Raised("InconsistentTableError")
         ELSE Returned(rows)

----------------------------------------------------------------------------
(* IsochroneFile.path / filename / metallicity, lines 70-81. *)

\* pathlib.Path(...).name: the final component of the path
RECURSIVE LastSlash(_, _)
LastSlash(p, i) ==
    IF i = 0 THEN 0 ELSE IF p[i] = "/" THEN i ELSE LastSlash(p, i - 1)

PathName(p) == SubSeq(p, LastSlash(p, Len(p)) + 1, Len(p))

\* _file_format = "output_{}.dat"
_file_format == <<"o", "u", "t", "p", "u", "t", "_", "{", "}", ".", "d", "a", "t">>

\* _file_format.split('{}')
FormatParts ==
    LET k == CHOOSE i \in 1..(Len(_file_format) - 1) :
                 _file_format[i] = "{" /\ _file_format[i + 1] = "}"
    IN <<SubSeq(_file_format, 1, k - 1),
         SubSeq(_file_format, k + 2, Len(_file_format))>>

\* one character of a pattern that was pasted into the regular expression
\* without escaping: '.' matches every character but the newline
RegexCharMatches(p, c) == IF p = "." THEN c # "\n" ELSE p = c

\* pat matches s[k+1 .. k+Len(pat)]
PatternAt(pat, s, k) ==
    /\ k >= 0
    /\ k + Len(pat) <= Len(s)
    /\ \A i \in 1..Len(pat) : RegexCharMatches(pat[i], s[k + i])

\* the matches of "(?<=prefix)(.*)(?=suffix)": <<a, b>> is the group s[a+1..b]
RegexMatches(s) ==
    {m \in (0..Len(s)) \X (0..Len(s)) :
        /\ m[1] <= m[2]
        /\ PatternAt(FormatParts[1], s, m[1] - Len(FormatParts[1]))
        /\ PatternAt(FormatParts[2], s, m[2])
        /\ \A i \in (m[1] + 1)..m[2] : s[i] # "\n"}

\* re.findall(...)[0]: the leftmost match, its group taken greedily
FindAllFirst(s) ==
    LET ms == RegexMatches(s) IN
    IF ms = {} THEN Raised("IndexError")
    ELSE LET a == CHOOSE x \in {m[1] : m \in ms} : \A m \in ms : x <= m[1]
             ends == {m[2] : m \in {n \in ms : n[1] = a}}
             b == CHOOSE y \in ends : \A z \in ends : z <= y
         IN Returned(SubSeq(s, a + 1, b))

Digits == <<"0", "1", "2", "3", "4", "5", "6", "7", "8", "9">>
IsDigit(c) == \E i \in 1..Len(Digits) : Digits[i] = c
DigitValue(c) == (CHOOSE i \in 1..Len(Digits) : Digits[i] = c) - 1

RECURSIVE DigitsValue(_)
DigitsValue(s) ==
    IF s = <<>> THEN 0
    ELSE DigitsValue(SubSeq(s, 1, Len(s) - 1)) * 10 + DigitValue(s[Len(s)])

\* num / 10^scale with the trailing zeros of the fraction dropped
RECURSIVE Normalise(_, _)
Normalise(num, scale) ==
    IF scale > 0 /\ num % 10 = 0 THEN Normalise(num \div 10, scale - 1)
    ELSE [num |-> num, scale |-> scale]

\* float(text) for decimal literals: optional sign, digits with at most one
\* point and at least one digit, surrounding whitespace ignored.  (The
\* exponent, inf/nan and digit-grouping forms need characters that the file
\* names drawn here do not put between digits.)
ParseFloat(text) ==
    LET t == Strip(text, Whitespace)
        signed == t # <<>> /\ t[1] \in {"-", "+"}
        body == IF signed THEN Tail(t) ELSE t
        points == {i \in 1..Len(body) : body[i] = "."}
        digits == SelectSeq(body, IsDigit)
        ok == /\ \A i \in 1..Len(body) : IsDigit(body[i]) \/ body[i] = "."
              /\ Cardinality(points) <= 1
              /\ digits # <<>>
        scale == IF points = {} THEN 0
                 ELSE Len(body) - (CHOOSE i \in points : TRUE)
    IN IF ~ok THEN Raised("ValueError")
       ELSE Returned([neg |-> signed /\ t[1] = "-"] @@
                     Normalise(DigitsValue(digits), scale))

\* lines 80-81: float(re.findall(..., self.filename)[0])
Metallicity(path) ==
    LET found == FindAllFirst(PathName(path))
    IN IF found.kind = "raise" THEN found ELSE ParseFloat(found.val)

----------------------------------------------------------------------------
(* IsochroneFile._write_table, lines 43-49.  A row is <<age, initial mass>>. *)

\* the sort with the initial-mass key left out
SortKeys_ageOnly == <<1>>

\* the positions of the columns named by [isochrone._Age, isochrone._M_ini]
SortKeys == <<1, 2>>

\* r1 does not come after r2 in the order on the key columns
RECURSIVE KeyLE(_, _, _)
KeyLE(r1, r2, keys) ==
    IF keys = <<>> THEN TRUE
    ELSE \/ r1[Head(keys)] < r2[Head(keys)]
         \/ r1[Head(keys)] = r2[Head(keys)] /\ KeyLE(r1, r2, Tail(keys))

RECURSIVE InsertRow(_, _, _)
InsertRow(r, sorted, keys) ==
    IF sorted = <<>> THEN <<r>>
    ELSE IF KeyLE(Head(sorted), r, keys)
         THEN <<Head(sorted)>> \o InsertRow(r, Tail(sorted), keys)
         ELSE <<r>> \o sorted

\* data.sort(keys)
RECURSIVE SortRows(_, _)
SortRows(rows, keys) ==
    IF rows = <<>> THEN <<>>
    ELSE InsertRow(rows[Len(rows)], SortRows(SubSeq(rows, 1, Len(rows) - 1), keys), keys)

\* the names of the two columns, as the header line carries them
AgeName == <<"A", "g", "e">>
MiniName == <<"M", "_", "i", "n", "i">>

\* data.write(self.path, format='ascii.commented_header')
RenderTable(rows) ==
    <<(<<"#", " ">> \o AgeName \o <<" ">> \o MiniName \o <<"\n">>)>>
    \o [i \in 1..Len(rows) |->
           <<Digits[rows[i][1] + 1], " ", Digits[rows[i][2] + 1], "\n">>]

\* the isinstance tests of lines 44-47
WritableKinds == {"DataFrame", "Table"}

----------------------------------------------------------------------------
(* The object: construction, lines 23-36. *)

Main == "main"

\* the threads a program may run; `threads` holds those that share the object
AllThreads == {Main, "reader"}

IsochroneArg == Some("Isochrone")
CtorArgCounts == 0..3
TableKinds == WritableKinds \cup {"list"}

\* what __init__ does with n positional arguments, the keyword argument
\* isochrone and, in the two-argument form, a table of the given kind;
\* canWrite: data.write accepts the path (astropy refuses, from some
\* version on, to write over an existing file)
CtorOutcome(n, iso, kind, canWrite) ==
    IF IsNone(iso)
    THEN [exc |-> "TypeError", setIso |-> FALSE, setPath |-> FALSE,
          sort |-> FALSE, write |-> FALSE]
    ELSE IF n = 0
    THEN [exc |-> "TypeError", setIso |-> TRUE, setPath |-> FALSE,
          sort |-> FALSE, write |-> FALSE]
    ELSE IF n \in {1, 2}
    THEN IF n = 1
         THEN [exc |-> "none", setIso |-> TRUE, setPath |-> TRUE,
               sort |-> FALSE, write |-> FALSE]
         ELSE IF kind \notin WritableKinds
         THEN [exc |-> "ValueError", setIso |-> TRUE, setPath |-> TRUE,
               sort |-> FALSE, write |-> FALSE]
         ELSE IF ~canWrite
         THEN [exc |-> "OSError", setIso |-> TRUE, setPath |-> TRUE,
               sort |-> TRUE, write |-> FALSE]
         ELSE [exc |-> "none", setIso |-> TRUE, setPath |-> TRUE,
               sort |-> TRUE, write |-> TRUE]
    ELSE [exc |-> "TypeError", setIso |-> TRUE, setPath |-> FALSE,
          sort |-> FALSE, write |-> FALSE]

\* IsochroneFile(*args, isochrone=iso)
Construct ==
    /\ obj = "new"
    /\ \E n \in CtorArgCounts, iso \in {None, IsochroneArg}, kind \in TableKinds,
          overwrite \in BOOLEAN :
        LET o == CtorOutcome(n, iso, kind, disk.tag = "Absent" \/ overwrite)
            sorted == SortRows(argTable, SortKeys)
        IN /\ nargs' = n
           /\ _isochrone' = IF o.setIso THEN iso ELSE _isochrone
           /\ _path' = IF o.setPath THEN Some(argPath) ELSE _path
           \* _write_table: an astropy Table is sorted in place, a DataFrame
           \* is converted first and the caller's object is left alone
           /\ argTable' = IF o.sort /\ kind = "Table" THEN sorted ELSE argTable
           /\ disk' = IF o.write THEN File(RenderTable(sorted)) ELSE disk
           /\ IF o.exc = "none"
              THEN /\ obj' = "live"
                   /\ _column_names' = None
                   /\ _data' = None
                   /\ result' = result
              ELSE /\ obj' = "failed"
                   /\ UNCHANGED <<_column_names, _data>>
                   /\ result' = [result EXCEPT ![Main] = Raised(o.exc)]
    /\ UNCHANGED <<argPath, threads, pc, ctx, tmp, nOpen, nParsed, nAssign, nAccess>>
    /\ UNCHANGED svVars

----------------------------------------------------------------------------
(* The lazy properties column_names and data, lines 54-67 and 83-93, one   *)
(* step per place where another thread can run in between.                 *)

Idle(t) == t \in threads /\ obj = "live" /\ pc[t] = "idle"

Goto(t, where) == pc' = [pc EXCEPT ![t] = where]
Return(t, v) == Goto(t, "idle") /\ result' = [result EXCEPT ![t] = Returned(v)]
Raise(t, e) == Goto(t, "idle") /\ result' = [result EXCEPT ![t] = Raised(e)]

\* the property without its test: every access loads
NeedsLoad_always(field) == TRUE

\* `if self._column_names is None`, `if self._data is None`
NeedsLoad(field) == IsNone(field)

\* a __repr__ that also formats the column names
ReprProps_withNames == <<"filename", "column_names">>

\* the attributes __repr__ formats
ReprProps == <<"filename">>

\* ', '.join(f"{prop}={getattr(self, prop)}" ...) inside f'{cls}({description})'
ReprText(names) ==
    [cls |-> "IsochroneFile",
     description |-> [i \in 1..Len(ReprProps) |->
        <<ReprProps[i],
          IF ReprProps[i] = "filename" THEN PathName(_path.val) ELSE names>>]]

\* `return self._column_names` handed to whoever asked for it
DeliverNames(t, names) ==
    CASE ctx[t] = "column_names" -> Return(t, names) /\ tmp' = tmp
      [] ctx[t] = "data" ->
            /\ Goto(t, "data_read")
            /\ tmp' = [tmp EXCEPT ![t] = names]
            /\ result' = result
      [] OTHER -> Return(t, ReprText(names)) /\ tmp' = tmp

\* obj.column_names
CallColumnNames(t) ==
    /\ Idle(t)
    /\ nAccess < MaxAccess
    /\ nAccess' = nAccess + 1
    /\ ctx' = [ctx EXCEPT ![t] = "column_names"]
    /\ Goto(t, "cn_get")
    /\ result' = [result EXCEPT ![t] = NoResult]
    /\ UNCHANGED <<disk, argPath, argTable, threads, obj, nargs, _isochrone, _path,
                   _column_names, _data, tmp, nOpen, nParsed, nAssign>>
    /\ UNCHANGED svVars

\* lines 85-87
ColumnNamesGet(t) ==
    /\ pc[t] = "cn_get"
    /\ IF NeedsLoad(_column_names)
       THEN Goto(t, "cn_load") /\ UNCHANGED <<tmp, result>>
       ELSE DeliverNames(t, _column_names.val)
    /\ UNCHANGED <<disk, argPath, argTable, threads, obj, nargs, _isochrone, _path,
                   _column_names, _data, ctx, nOpen, nParsed, nAssign, nAccess>>
    /\ UNCHANGED svVars

\* the load with the list of names created before the file is read and
\* filled afterwards
LoadColumnNamesRead_eager(t) ==
    /\ pc[t] = "cn_load"
    /\ nOpen' = [nOpen EXCEPT !.header = @ + 1]
    /\ _column_names' = Some(<<>>)
    /\ IF disk.tag = "Absent"
       THEN Raise(t, "FileNotFoundError") /\ UNCHANGED <<tmp, nParsed>>
       ELSE LET header == ReadHeader(disk.lines, 1, Unbound) IN
            IF ~header.bound
            THEN Raise(t, "UnboundLocalError") /\ UNCHANGED <<tmp, nParsed>>
            ELSE /\ tmp' = [tmp EXCEPT ![t] = HeaderNames(header.val)]
                 /\ nParsed' = [nParsed EXCEPT !.header = @ + 1]
                 /\ Goto(t, "cn_store")
                 /\ result' = result
    /\ UNCHANGED <<disk, argPath, argTable, threads, obj, nargs, _isochrone, _path,
                   _data, ctx, nAssign, nAccess>>
    /\ UNCHANGED svVars

\* lines 55-63: open the file, find the header line, split it
LoadColumnNamesRead(t) ==
    /\ pc[t] = "cn_load"
    /\ nOpen' = [nOpen EXCEPT !.header = @ + 1]
    /\ IF disk.tag = "Absent"
       THEN Raise(t, "FileNotFoundError") /\ UNCHANGED <<tmp, nParsed>>
       ELSE LET header == ReadHeader(disk.lines, 1, Unbound) IN
            IF ~header.bound
            THEN Raise(t, "UnboundLocalError") /\ UNCHANGED <<tmp, nParsed>>
            ELSE /\ tmp' = [tmp EXCEPT ![t] = HeaderNames(header.val)]
                 /\ nParsed' = [nParsed EXCEPT !.header = @ + 1]
                 /\ Goto(t, "cn_store")
                 /\ result' = result
    /\ UNCHANGED <<disk, argPath, argTable, threads, obj, nargs, _isochrone, _path,
                   _column_names, _data, ctx, nAssign, nAccess>>
    /\ UNCHANGED svVars

\* line 64, then line 87
LoadColumnNamesStore(t) ==
    /\ pc[t] = "cn_store"
    /\ _column_names' = Some(tmp[t])
    /\ nAssign' = [nAssign EXCEPT !.column_names = @ + 1]
    /\ DeliverNames(t, tmp[t])
    /\ UNCHANGED <<disk, argPath, argTable, threads, obj, nargs, _isochrone, _path,
                   _data, ctx, nOpen, nParsed, nAccess>>
    /\ UNCHANGED svVars

\* obj.data
CallData(t) ==
    /\ Idle(t)
    /\ nAccess < MaxAccess
    /\ nAccess' = nAccess + 1
    /\ ctx' = [ctx EXCEPT ![t] = "data"]
    /\ Goto(t, "data_get")
    /\ result' = [result EXCEPT ![t] = NoResult]
    /\ UNCHANGED <<disk, argPath, argTable, threads, obj, nargs, _isochrone, _path,
                   _column_names, _data, tmp, nOpen, nParsed, nAssign>>
    /\ UNCHANGED svVars

\* the body read without resolving the column names first
DataLoadEntry_skipNames == "data_read"

\* line 67: the argument names=self.column_names is evaluated before
\* ascii.read is called
DataLoadEntry == "cn_get"

\* lines 91-93
DataGet(t) ==
    /\ pc[t] = "data_get"
    /\ IF NeedsLoad(_data)
       THEN Goto(t, DataLoadEntry) /\ result' = result
       ELSE Return(t, _data.val)
    /\ UNCHANGED <<disk, argPath, argTable, threads, obj, nargs, _isochrone, _path,
                   _column_names, _data, ctx, tmp, nOpen, nParsed, nAssign, nAccess>>
    /\ UNCHANGED svVars

\* line 67: the call of ascii.read
LoadDataRead(t) ==
    /\ pc[t] = "data_read"
    /\ nOpen' = [nOpen EXCEPT !.body = @ + 1]
    /\ LET r == ascii_read(disk, tmp[t]) IN
       IF r.kind = "raise"
       THEN Raise(t, r.exc) /\ UNCHANGED <<tmp, nParsed>>
       ELSE /\ tmp' = [tmp EXCEPT ![t] = r.val]
            /\ nParsed' = [nParsed EXCEPT !.body = @ + 1]
            /\ Goto(t, "data_store")
            /\ result' = result
    /\ UNCHANGED <<disk, argPath, argTable, threads, obj, nargs, _isochrone, _path,
                   _column_names, _data, ctx, nAssign, nAccess>>
    /\ UNCHANGED svVars

\* line 67: the assignment to self._data, then line 93
LoadDataStore(t) ==
    /\ pc[t] = "data_store"
    /\ _data' = Some(tmp[t])
    /\ nAssign' = [nAssign EXCEPT !.data = @ + 1]
    /\ Return(t, tmp[t])
    /\ UNCHANGED <<disk, argPath, argTable, threads, obj, nargs, _isochrone, _path,
                   _column_names, ctx, tmp, nOpen, nParsed, nAccess>>
    /\ UNCHANGED svVars

----------------------------------------------------------------------------
(* The accessors that read the path only, lines 38-41, 70-81, 95-97. *)

Accessor(t, name, outcome) ==
    /\ Idle(t)
    /\ ctx' = [ctx EXCEPT ![t] = name]
    /\ Goto(t, "idle")
    /\ result' = [result EXCEPT ![t] = outcome]
    /\ UNCHANGED <<disk, argPath, argTable, threads, obj, nargs, _isochrone, _path,
                   _column_names, _data, tmp, nOpen, nParsed, nAssign, nAccess>>
    /\ UNCHANGED svVars

AccessPath(t) == Accessor(t, "path", Returned(_path.val))

AccessFilename(t) == Accessor(t, "filename", Returned(PathName(_path.val)))

AccessMetallicity(t) == Accessor(t, "metallicity", Metallicity(_path.val))

AccessIsochrone(t) == Accessor(t, "isochrone", Returned(_isochrone.val))

\* repr(obj): getattr(self, prop) for every prop of ReprProps; an attribute
\* that is a lazy property runs that property
Repr(t) ==
    IF \E i \in 1..Len(ReprProps) : ReprProps[i] = "column_names"
    THEN /\ Idle(t)
         /\ ctx' = [ctx EXCEPT ![t] = "repr"]
         /\ Goto(t, "cn_get")
         /\ result' = [result EXCEPT ![t] = NoResult]
         /\ UNCHANGED <<disk, argPath, argTable, threads, obj, nargs, _isochrone,
                        _path, _column_names, _data, tmp, nOpen, nParsed, nAssign,
                        nAccess>>
         /\ UNCHANGED svVars
    ELSE Accessor(t, "repr", Returned(ReprText(<<>>)))

NextObject ==
    \/ Construct
    \/ \E t \in AllThreads :
        \/ CallColumnNames(t)
        \/ ColumnNamesGet(t)
        \/ LoadColumnNamesRead(t)
        \/ LoadColumnNamesStore(t)
        \/ CallData(t)
        \/ DataGet(t)
        \/ LoadDataRead(t)
        \/ LoadDataStore(t)
        \/ AccessPath(t)
        \/ AccessFilename(t)
        \/ AccessMetallicity(t)
        \/ AccessIsochrone(t)
        \/ Repr(t)

----------------------------------------------------------------------------
(* Inputs. *)

HeaderAB == <<"#", " ", "A", " ", "B", "\n">>
HeaderA == <<"#", " ", "A", "\n">>
Comment == <<"#", "c", "\n">>
Row12 == <<"1", " ", "2", "\n">>
Row21 == <<"2", " ", "1", "\n">>

GoodFile == File(<<Comment, HeaderAB, Row12, Row21>>)

\* files for the life of one object: missing, empty, without a header,
\* well-formed, header only, and a header with fewer names than the body
\* has columns
LifeDisks ==
    {Absent, File(<<>>), File(<<Row12>>), GoodFile, File(<<HeaderAB>>),
     File(<<HeaderA, Row12>>)}

GoodPath == <<"d", "/">> \o FormatParts[1] \o <<"0", ".", "5">> \o FormatParts[2]
BadPath == <<"t", "_", "5">> \o FormatParts[2]

Ages == {1, 2}
Masses == {1, 2}
Tables == UNION {[1..k -> Ages \X Masses] : k \in 0..MaxRows}

\* the state of the survey entry point while the object is studied
SurveyIdle ==
    /\ svPc = "idle"
    /\ svArgs = 0
    /\ svPname = None
    /\ svKname = None
    /\ svInput = Unbound
    /\ svBuilt = {}
    /\ svErr = "none"
    /\ svCalls = 0

\* before IsochroneFile(...) is called
ObjectNew(ts) ==
    /\ threads = ts
    /\ obj = "new"
    /\ nargs = 0
    /\ _isochrone = NoAttr
    /\ _path = NoAttr
    /\ _column_names = NoAttr
    /\ _data = NoAttr
    /\ pc = [t \in AllThreads |-> "idle"]
    /\ ctx = [t \in AllThreads |-> "none"]
    /\ tmp = [t \in AllThreads |-> <<>>]
    /\ result = [t \in AllThreads |-> NoResult]
    /\ nOpen = [header |-> 0, body |-> 0]
    /\ nParsed = [header |-> 0, body |-> 0]
    /\ nAssign = [column_names |-> 0, data |-> 0]
    /\ nAccess = 0

\* a caller that opens what is at the path, and a caller that generates the
\* file from a table at a path where nothing is yet
Init ==
    /\ \/ /\ disk \in LifeDisks
          /\ argPath \in {GoodPath, BadPath}
          /\ argTable \in {<<>>, <<<<2, 1>>, <<1, 2>>>>}
       \/ /\ disk = Absent
          /\ argPath = GoodPath
          /\ argTable \in Tables
    /\ ObjectNew({Main})
    /\ SurveyIdle

Spec == Init /\ [][NextObject]_vars

----------------------------------------------------------------------------
(* The header study: the same object over files whose header line is drawn *)
(* freely.                                                                 *)

HeaderAlphabet == {"#", " ", "\t", "A"}
HeaderTexts == UNION {[1..k -> HeaderAlphabet] : k \in 0..MaxLineLen}

\* the drawn line, after nothing or after a comment line, followed by
\* nothing or by a data line; as the last line it may lack its newline
HeaderDisks ==
    {File(pre \o <<text \o <<"\n">>>> \o suf) :
        pre \in {<<>>, <<Comment>>}, text \in HeaderTexts, suf \in {<<>>, <<Row12>>}}
    \cup
    {File(pre \o <<text>>) :
        pre \in {<<>>, <<Comment>>}, text \in HeaderTexts \ {<<>>}}
    \cup {File(<<>>)}

InitHeader ==
    /\ disk \in HeaderDisks
    /\ argPath = GoodPath
    /\ argTable = <<>>
    /\ ObjectNew({Main})
    /\ SurveyIdle

SpecHeader == InitHeader /\ [][NextObject]_vars

----------------------------------------------------------------------------
(* The file-name study: the same object over file names drawn around the   *)
(* template.                                                               *)

ValueAlphabet == {"0", "5", ".", "-"}
ValueTexts == UNION {[1..k -> ValueAlphabet] : k \in 0..MaxValLen}

FileNames ==
    {pre \o stem \o val \o suf :
        pre \in {<<>>, <<"x">>},
        stem \in {FormatParts[1], <<"t", "a", "b", "l", "e", "_">>},
        val \in ValueTexts,
        suf \in {FormatParts[2], <<"X", "d", "a", "t">>,
                 FormatParts[2] \o <<"x">>, <<".", "t">>}}

InitMetallicity ==
    /\ disk = GoodFile
    /\ argPath \in FileNames
    /\ argTable = <<>>
    /\ ObjectNew({Main})
    /\ SurveyIdle

SpecMetallicity == InitMetallicity /\ [][NextObject]_vars

----------------------------------------------------------------------------
(* The object shared by concurrent readers. *)

InitThreads ==
    /\ disk \in LifeDisks
    /\ argPath = GoodPath
    /\ argTable = <<>>
    /\ ObjectNew(AllThreads)
    /\ SurveyIdle

SpecThreads == InitThreads /\ [][NextObject]_vars

----------------------------------------------------------------------------
(* make_survey_from_particles, __init__.py lines 27 and 116-122.  Input    *)
(* and Survey are opaque: a call of either returns or raises.              *)

SurveyArgCounts == 0..4
KeywordValues == {None, Some("ebf")}

\* a call with n positional arguments and the keywords pname, kname
SvCall ==
    /\ svPc \in {"idle", "returned", "raised"}
    /\ svCalls < MaxCalls
    /\ \E n \in SurveyArgCounts, pn \in KeywordValues, kn \in KeywordValues :
        /\ svArgs' = n
        /\ svPname' = pn
        /\ svKname' = kn
    /\ svPc' = "select"
    /\ svInput' = Unbound
    /\ svBuilt' = {}
    /\ svErr' = "none"
    /\ svCalls' = svCalls + 1
    /\ UNCHANGED objVars

\* line 116 and line 118: the branch taken
InputBranch(n, pn, kn) ==
    IF ~IsNone(pn) /\ ~IsNone(kn) THEN "files"
    ELSE IF n = 3 THEN "arrays"
    ELSE "none"

\* lines 116-119
SvSelectInput ==
    /\ svPc = "select"
    /\ LET branch == InputBranch(svArgs, svPname, svKname) IN
       IF branch = "none"
       THEN /\ svPc' = "survey"
            /\ UNCHANGED <<svInput, svBuilt, svErr>>
       ELSE /\ svBuilt' = svBuilt \cup {"Input"}
            /\ \/ /\ svInput' = Bound(branch)
                  /\ svPc' = "survey"
                  /\ svErr' = svErr
               \/ /\ svPc' = "raised"
                  /\ svErr' = "InputError"
                  /\ svInput' = svInput
    /\ UNCHANGED <<svArgs, svPname, svKname, svCalls>>
    /\ UNCHANGED objVars

\* line 120: reading `input`, then Survey(input, ...)
SvSurvey ==
    /\ svPc = "survey"
    /\ IF ~svInput.bound
       THEN /\ svPc' = "raised"
            /\ svErr' = "UnboundLocalError"
            /\ svBuilt' = svBuilt
       ELSE /\ svBuilt' = svBuilt \cup {"Survey"}
            /\ \/ svPc' = "make" /\ svErr' = svErr
               \/ svPc' = "raised" /\ svErr' = "SurveyError"
    /\ UNCHANGED <<svArgs, svPname, svKname, svInput, svCalls>>
    /\ UNCHANGED objVars

\* lines 121-122: survey.make_survey(...), return output
SvMakeSurvey ==
    /\ svPc = "make"
    /\ svBuilt' = svBuilt \cup {"make_survey"}
    /\ \/ svPc' = "returned" /\ svErr' = svErr
       \/ svPc' = "raised" /\ svErr' = "SurveyError"
    /\ UNCHANGED <<svArgs, svPname, svKname, svInput, svCalls>>
    /\ UNCHANGED objVars

NextSurvey == SvCall \/ SvSelectInput \/ SvSurvey \/ SvMakeSurvey

InitSurvey ==
    /\ disk = Absent
    /\ argPath = GoodPath
    /\ argTable = <<>>
    /\ ObjectNew({Main})
    /\ SurveyIdle

SpecSurvey == InitSurvey /\ [][NextSurvey]_vars

----------------------------------------------------------------------------
(* Properties. *)

Cached(field) == field.tag = "Some"
Live == obj = "live"

\* C1: used from one thread, each section of the file is parsed to the end
\* at most once, and a cached field is never assigned again, nor is its
\* section of the file opened again, once it holds a value.
C1_LoadOnceSingleThread ==
    [][/\ nParsed'.header <= 1
       /\ nParsed'.body <= 1
       /\ (Live /\ Cached(_column_names)) =>
              (_column_names' = _column_names /\ nOpen'.header = nOpen.header)
       /\ (Live /\ Cached(_data)) =>
              (_data' = _data /\ nOpen'.body = nOpen.body)]_vars

\* both sections loaded, then a further access answered from the cache
C1_Witness ==
    /\ Live
    /\ Cached(_column_names)
    /\ Cached(_data)
    /\ nAccess >= 2
    /\ pc[Main] = "idle"
    /\ ctx[Main] = "column_names"
    /\ result[Main].kind = "return"
    /\ nOpen = [header |-> 1, body |-> 1]

\* the names the header line stands for: the marker stripped, then split at
\* runs of whitespace
ReferenceNames(h) == Fields(Strip(h, {"#"}))

\* C2: when the leading comment block is not empty, column_names is the
\* whitespace-separated names of its last line: no name is empty and no
\* name contains whitespace.  (Stated for the header lines that carry at
\* least one name.)
C2_ColumnNamesReference ==
    (/\ Live
     /\ Cached(_column_names)
     /\ ReferenceNames(ReadHeader(disk.lines, 1, Unbound).val) # <<>>) =>
        LET header == ReadHeader(disk.lines, 1, Unbound)
            names == _column_names.val
        IN /\ names = ReferenceNames(header.val)
           /\ \A i \in 1..Len(names) :
                /\ names[i] # <<>>
                /\ \A j \in 1..Len(names[i]) : names[i][j] \notin Whitespace

\* C3: column_names on a file without a commented line before its first
\* data line fails with HeaderFormatError.
C3_NoHeaderError ==
    (/\ Live
     /\ ctx[Main] = "column_names"
     /\ result[Main].kind # "none"
     /\ disk.tag = "File"
     /\ ~ReadHeader(disk.lines, 1, Unbound).bound)
    => (result[Main].kind = "raise" /\ result[Main].exc = "HeaderFormatError")

\* the whole name is prefix, value, suffix
MatchesTemplate(name) ==
    /\ Len(name) >= Len(FormatParts[1]) + Len(FormatParts[2])
    /\ SubSeq(name, 1, Len(FormatParts[1])) = FormatParts[1]
    /\ SubSeq(name, Len(name) - Len(FormatParts[2]) + 1, Len(name)) = FormatParts[2]

TemplateValue(name) ==
    SubSeq(name, Len(FormatParts[1]) + 1, Len(name) - Len(FormatParts[2]))

\* C4: metallicity returns a value only for a name of the form
\* output_<value>.dat, and then the value of <value>; for every other name
\* it fails with an error of the ValueError class.
C4_MetallicityTemplate ==
    (Live /\ ctx[Main] = "metallicity") =>
        LET name == PathName(_path.val)
            r == result[Main]
        IN IF MatchesTemplate(name)
           THEN r.kind = "return" => r = ParseFloat(TemplateValue(name))
           ELSE r.kind = "raise" /\ r.exc \in ValueErrorClass

FilesSelected == ~IsNone(svPname) /\ ~IsNone(svKname)
ArraysSelected == svArgs = 3

\* C5: the two input paths exclude each other: an Input is built only when
\* exactly one of them is selected, and a call that selects both or neither
\* ends in an error with nothing started.  (Any exception counts as the
\* rejection here.)
C5_InputPathsExclusive ==
    /\ "Input" \in svBuilt => (FilesSelected # ArraysSelected)
    /\ (svPc \in {"returned", "raised"} /\ FilesSelected = ArraysSelected) =>
          (svPc = "raised" /\ svBuilt = {})

\* the rows of the file on disk, as numbers
DiskRows ==
    LET rows == BodyRows(disk.lines, 1)
    IN [i \in 1..Len(rows) |-> <<DigitsValue(rows[i][1]), DigitsValue(rows[i][2])>>]

Occurrences(row, rows) == Cardinality({i \in 1..Len(rows) : rows[i] = row})

IsPermutation(a, b) ==
    /\ Len(a) = Len(b)
    /\ \A i \in 1..Len(a) : Occurrences(a[i], a) = Occurrences(a[i], b)

AgeThenMassAscending(rows) ==
    \A i \in 1..(Len(rows) - 1) :
        \/ rows[i][1] < rows[i + 1][1]
        \/ rows[i][1] = rows[i + 1][1] /\ rows[i][2] <= rows[i + 1][2]

\* C6: the two-argument constructor leaves on disk the rows of the table,
\* permuted into ascending (age, initial mass) order, and the file is only
\* ever written by the constructor, before anything of it was read.
C6_TableWrittenSorted ==
    /\ [](Live /\ nargs = 2 =>
            /\ disk.tag = "File"
            /\ IsPermutation(DiskRows, argTable)
            /\ AgeThenMassAscending(DiskRows))
    /\ [][disk' # disk =>
            /\ obj = "new"
            /\ obj' = "live"
            /\ nargs' = 2
            /\ nOpen' = [header |-> 0, body |-> 0]]_vars

\* a table out of order in age and, within one age, in mass
C6_Witness ==
    /\ Live
    /\ nargs = 2
    /\ argTable = <<<<2, 1>>, <<1, 2>>, <<1, 1>>>>
    /\ disk.tag = "File"
    /\ DiskRows = <<<<1, 1>>, <<1, 2>>, <<2, 1>>>>

\* C7: shared by concurrent readers, each section is still parsed at most
\* once and each cached field assigned at most once.
C7_LoadOnceShared ==
    /\ nParsed.header <= 1
    /\ nParsed.body <= 1
    /\ nAssign.column_names <= 1
    /\ nAssign.data <= 1

\* C8: an object starts unloaded, and data is only ever loaded on top of
\* loaded column names: unloaded, header-parsed, data-loaded, in this order.
C8_LifecycleOrder ==
    /\ [](Live =>
            /\ _column_names.tag \in {"None", "Some"}
            /\ _data.tag \in {"None", "Some"}
            /\ (Cached(_data) => Cached(_column_names)))
    /\ [][(obj = "new" /\ obj' = "live") =>
            (IsNone(_column_names') /\ IsNone(_data'))]_vars
    /\ [][(Live /\ ~Cached(_data) /\ Cached(_data')) => Cached(_column_names)]_vars

\* written by the two-argument form, then loaded through data
C8_Witness ==
    /\ Live
    /\ nargs = 2
    /\ ctx[Main] = "data"
    /\ result[Main].kind = "return"
    /\ Cached(_data)
    /\ Cached(_column_names)
    /\ Len(_data.val) = 2

\* C9: a load that raises leaves both caches as they were: after a failed
\* header both are None, after a failed body _data is None and the names
\* stay cached; and an access that finds None starts the load again.
C9_FailedLoadLeavesNoCache ==
    [][/\ (pc[Main] \in {"cn_load", "data_read"} /\ result'[Main].kind = "raise") =>
            /\ _column_names' = _column_names
            /\ _data' = _data
            /\ IsNone(_data')
            /\ pc[Main] = "cn_load" => IsNone(_column_names')
            /\ pc[Main] = "data_read" => Cached(_column_names')
       /\ (pc[Main] = "cn_get" /\ IsNone(_column_names)) =>
            (pc'[Main] = "cn_load" /\ result'[Main].kind = "none")
       /\ (pc[Main] = "data_get" /\ IsNone(_data)) =>
            (pc'[Main] \in {"cn_get"} /\ result'[Main].kind = "none")
       /\ (pc[Main] = "cn_load") => nOpen'.header = nOpen.header + 1
       /\ (pc[Main] = "data_read") => nOpen'.body = nOpen.body + 1]_vars

\* the body failed twice under cached names
C9_Witness ==
    /\ Live
    /\ pc[Main] = "idle"
    /\ ctx[Main] = "data"
    /\ result[Main].kind = "raise"
    /\ Cached(_column_names)
    /\ IsNone(_data)
    /\ nOpen.body >= 2
    /\ nOpen.header = 1

PathOnlyAccessors == {"metallicity", "filename", "path", "isochrone", "repr"}

\* C10: a step of metallicity, filename, path, isochrone or repr changes
\* none of _path, _column_names, _data, and neither opens nor writes the
\* file.
C10_AccessorsFrame ==
    [][ctx'[Main] \in PathOnlyAccessors =>
            /\ _path' = _path
            /\ _column_names' = _column_names
            /\ _data' = _data
            /\ nOpen' = nOpen
            /\ nParsed' = nParsed
            /\ disk' = disk
            /\ pc'[Main] = "idle"]_vars

\* metallicity raised on a fully loaded object
C10_Witness ==
    /\ Live
    /\ Cached(_data)
    /\ ctx[Main] = "metallicity"
    /\ result[Main].kind = "raise"

====
